---------------------------- MODULE Spec2Model ----------------------------
(***************************************************************************)
(* A model of the PE resource-directory helpers of dissect.executable:     *)
(*   pe/helpers/resources.py  ResourceManager (parsing, lookup,            *)
(*                            update_section) and Resource (the data       *)
(*                            setter that rebuilds the section buffer)     *)
(*   pe/helpers/utils.py      align_data, align_int, pad                   *)
(*                                                                         *)
(* Buffers are sequences of bytes (0..255), 1-indexed: the byte at Python  *)
(* offset o is buf[o + 1].  Strings (dictionary keys) are sequences of     *)
(* character codes.  The fixed-layout structures of c_pe are decoded from  *)
(* and encoded to bytes with the layout of the PE format.                  *)
(***************************************************************************)
EXTENDS Integers, Sequences, FiniteSets, TLC

VARIABLES
    pc,             \* "parsing" | "ready" | "failed" | "align"
    image,          \* index of the resource image the PE was loaded from
    stack,          \* the activation records of _read_resource
    raw_resources,  \* ResourceManager.raw_resources
    res,            \* the Resource objects, by identity (creation order)
    resources,      \* ResourceManager.resources (the tree)
    section_data,   \* section.data
    dir_size,       \* optional_header.DataDirectory[RESOURCE].Size
    updates,        \* number of update_section calls made
    op,             \* the last mutating operation: [name, r, v]
    call,           \* the last lookup call: [name, key]
    exc,            \* the exception the last operation raised, or "none"
    gen,            \* the generator get_resource_type returned
    yielded,        \* the Resources the generator has yielded so far
    al              \* the alignment utilities' arguments and results

vars == <<pc, image, stack, raw_resources, res, resources, section_data,
          dir_size, updates, op, call, exc, gen, yielded, al>>

-----------------------------------------------------------------------------
(* Bounds of the model.                                                    *)

\* The interpreter's recursion limit (sys.getrecursionlimit(), 1000 by
\* default), scaled down: _read_resource raises RecursionError beyond it.
RecursionLimit == 4
\* How many times update_section is called in one behaviour.
MaxUpdates == 1
\* The longest payload assigned to a Resource.
MaxPayload == 6
\* The alignment utilities' largest buffer, integer and block size.
MaxAlignLen == 5
MaxAlignInt == 12
MaxBlock == 5

-----------------------------------------------------------------------------
(* Sequences of bytes.                                                     *)

Byte == 0..255

Zeros(n) == [i \in 1..n |-> 0]

\* data[a:b] of Python for 0 <= a (0-based, clipped to the buffer).
Slice(buf, a, b) ==
    SubSeq(buf, a + 1, IF b < Len(buf) THEN b ELSE Len(buf))

\* BytesIO.seek(pos); BytesIO.write(bytes): the buffer is extended with
\* zero bytes up to pos when pos lies beyond its end; a write of no bytes
\* leaves the buffer as it is.
WriteAt(buf, pos, bytes) ==
    IF bytes = <<>> THEN buf
    ELSE (IF pos <= Len(buf) THEN SubSeq(buf, 1, pos)
          ELSE buf \o Zeros(pos - Len(buf)))
           \o bytes
           \o SubSeq(buf, pos + Len(bytes) + 1, Len(buf))

-----------------------------------------------------------------------------
(* The structures of c_pe, little-endian.  A 32-bit field whose top bit is *)
(* a flag is kept as the pair (low 31 bits, top bit).                      *)

DirectorySize == 16      \* sizeof(IMAGE_RESOURCE_DIRECTORY)
EntrySize == 8           \* sizeof(IMAGE_RESOURCE_DIRECTORY_ENTRY)
DataEntrySize == 16      \* sizeof(IMAGE_RESOURCE_DATA_ENTRY)

U16(buf, o) == buf[o + 1] + 256 * buf[o + 2]
U31(buf, o) == buf[o + 1] + 256 * buf[o + 2] + 65536 * buf[o + 3]
                 + 16777216 * (buf[o + 4] % 128)
TopBit(buf, o) == buf[o + 4] \div 128

LE16(v) == <<v % 256, (v \div 256) % 256>>
LE32(v, top) == <<v % 256, (v \div 256) % 256, (v \div 65536) % 256,
                  ((v \div 16777216) % 128) + 128 * top>>

\* c_pe.IMAGE_RESOURCE_DIRECTORY(data) at offset o; the caller has checked
\* that the structure lies within the buffer.
ReadDirectory(buf, o) ==
    [type |-> "IMAGE_RESOURCE_DIRECTORY",
     Characteristics |-> U31(buf, o), TimeDateStamp |-> U31(buf, o + 4),
     MajorVersion |-> U16(buf, o + 8), MinorVersion |-> U16(buf, o + 10),
     NumberOfNamedEntries |-> U16(buf, o + 12),
     NumberOfIdEntries |-> U16(buf, o + 14)]

\* c_pe.IMAGE_RESOURCE_DIRECTORY_ENTRY(data): Name is the union of
\* (NameOffset:31, NameIsString:1) and Id:16; OffsetToData the union of
\* (OffsetToDirectory:31, DataIsDirectory:1).
ReadEntry(buf, o) ==
    [type |-> "IMAGE_RESOURCE_DIRECTORY_ENTRY",
     NameOffset |-> U31(buf, o), NameIsString |-> TopBit(buf, o),
     Id |-> U16(buf, o),
     OffsetToDirectory |-> U31(buf, o + 4), DataIsDirectory |-> TopBit(buf, o + 4)]

\* c_pe.IMAGE_RESOURCE_DATA_ENTRY(data).
ReadDataEntry(buf, o) ==
    [type |-> "IMAGE_RESOURCE_DATA_ENTRY",
     OffsetToData |-> U31(buf, o), Size |-> U31(buf, o + 4),
     CodePage |-> U31(buf, o + 8), Reserved |-> U31(buf, o + 12)]

\* entry.dumps() of each structure.
DumpDirectory(d) ==
    LE32(d.Characteristics, 0) \o LE32(d.TimeDateStamp, 0)
      \o LE16(d.MajorVersion) \o LE16(d.MinorVersion)
      \o LE16(d.NumberOfNamedEntries) \o LE16(d.NumberOfIdEntries)

DumpEntry(e) ==
    LE32(e.NameOffset, e.NameIsString) \o LE32(e.OffsetToDirectory, e.DataIsDirectory)

DumpDataEntry(e) ==
    LE32(e.OffsetToData, 0) \o LE32(e.Size, 0) \o LE32(e.CodePage, 0)
      \o LE32(e.Reserved, 0)

\* c_pe.ResourceID(id).name, as character codes.
ResourceIDName(id) ==
    CASE id = 3 -> <<82, 84, 95, 73, 67, 79, 78>>              \* "RT_ICON"
      [] id = 6 -> <<82, 84, 95, 83, 84, 82, 73, 78, 71>>      \* "RT_STRING"
      [] OTHER  -> <<82, 84, 95, 63>>

\* str(n) for 0 <= n < 100000, as character codes.
RECURSIVE Str(_)
Str(n) == IF n < 10 THEN <<48 + n>> ELSE Str(n \div 10) \o <<48 + (n % 10)>>


-----------------------------------------------------------------------------
(* The container and the section (external collaborators).                 *)

\* section.virtual_address of the resource section.
VirtualAddress == 4096

\* pe.virtual_read(address, size), and pe.seek(address); pe.read(size): the
\* bytes of the section at the virtual address, clipped to the section.
virtual_read(buf, address, size) ==
    Slice(buf, address - VirtualAddress, address - VirtualAddress + size)

-----------------------------------------------------------------------------
(* The resource images the PE is loaded from.  Payloads are non-zero bytes *)
(* that differ from one resource to the next.                              *)

Dir(named, ids) ==
    DumpDirectory([Characteristics |-> 0, TimeDateStamp |-> 0, MajorVersion |-> 0,
                   MinorVersion |-> 0, NumberOfNamedEntries |-> named,
                   NumberOfIdEntries |-> ids])
IdEntry(id, off, isdir) == LE32(id, 0) \o LE32(off, isdir)
NamedEntry(nameoff, off, isdir) == LE32(nameoff, 1) \o LE32(off, isdir)
DataEntry(off, size) ==
    LE32(VirtualAddress + off, 0) \o LE32(size, 0) \o LE32(0, 0) \o LE32(0, 0)
NameString(codes) ==
    LE16(Len(codes)) \o [i \in 1..(2 * Len(codes)) |->
                            IF i % 2 = 1 THEN codes[(i + 1) \div 2] ELSE 0]
Payload(first, n) == [i \in 1..n |-> first + i]

\* RT_ICON -> { "A": 4 bytes at 96, "B": 8 bytes at 100 }: two string-named
\* leaves with contiguous payloads, the name strings at 88 and 92.
ImageNamed ==
    Dir(0, 1) \o IdEntry(3, 24, 1)
      \o Dir(2, 0) \o NamedEntry(88, 56, 0) \o NamedEntry(92, 72, 0)
      \o DataEntry(96, 4) \o DataEntry(100, 8)
      \o NameString(<<65>>) \o NameString(<<66>>)
      \o Payload(160, 4) \o Payload(176, 8)

\* RT_ICON -> { 1: 4 bytes at 64, 2: 8 bytes at 68 }: two id-named leaves,
\* contiguous payloads, nothing after the last payload.
ImagePlain ==
    Dir(0, 1) \o IdEntry(3, 24, 1)
      \o Dir(0, 2) \o IdEntry(1, 56, 0) \o IdEntry(2, 72, 0)
      \o DataEntry(88, 4) \o DataEntry(92, 8)
      \o Payload(160, 4) \o Payload(176, 8)

\* RT_ICON -> { 1: 4 bytes at 164, 2: 2 bytes at 168 },
\* RT_STRING -> { 7 -> { 1033: 3 bytes at 160 } }: three levels, the payloads
\* aligned to 4 bytes (one byte of padding at 163, two after the last
\* payload), the last leaf of the tree first on disk.
ImagePadded ==
    Dir(0, 2) \o IdEntry(3, 32, 1) \o IdEntry(6, 64, 1)
      \o Dir(0, 2) \o IdEntry(1, 112, 0) \o IdEntry(2, 128, 0)
      \o Dir(0, 1) \o IdEntry(7, 88, 1)
      \o Dir(0, 1) \o IdEntry(1033, 144, 0)
      \o DataEntry(164, 4) \o DataEntry(168, 2) \o DataEntry(160, 3)
      \o Payload(192, 3) \o Zeros(1) \o Payload(160, 4) \o Payload(176, 2)
      \o Zeros(2)

\* A root directory whose only entry points back at the root directory.
ImageSelfCycle == Dir(0, 1) \o IdEntry(3, 0, 1)

\* RT_ICON -> { 1 -> the root directory }: a cycle through an ancestor.
ImageAncestorCycle ==
    Dir(0, 1) \o IdEntry(3, 24, 1) \o Dir(0, 1) \o IdEntry(1, 0, 1)

\* An entry whose OffsetToDirectory lies past the end of the image.
ImageDirPastEnd == Dir(0, 1) \o IdEntry(3, 200, 1)

\* A directory that announces more entries than the image holds.
ImageEntriesPastEnd == Dir(0, 1) \o IdEntry(3, 24, 1) \o Dir(0, 2) \o IdEntry(1, 0, 0)

\* A string-named entry whose NameOffset lies past the end of the image.
ImageNamePastEnd ==
    Dir(0, 1) \o IdEntry(3, 24, 1) \o Dir(1, 0) \o NamedEntry(200, 48, 0)
      \o DataEntry(64, 2) \o Payload(160, 2)

\* A leaf entry whose data entry lies past the end of the image.
ImageDataEntryPastEnd ==
    Dir(0, 1) \o IdEntry(3, 24, 1) \o Dir(0, 1) \o IdEntry(1, 200, 0)

\* RT_ICON: 2 bytes at 88 (a leaf entry of the root directory),
\* RT_STRING -> { 1: 2 bytes at 90 }.
ImageRootLeaf ==
    Dir(0, 2) \o IdEntry(3, 32, 0) \o IdEntry(6, 48, 1)
      \o DataEntry(88, 2)
      \o Dir(0, 1) \o IdEntry(1, 72, 0)
      \o DataEntry(90, 2)
      \o Payload(160, 2) \o Payload(176, 2)

Images ==
    <<ImageNamed, ImagePlain, ImagePadded, ImageRootLeaf, ImageSelfCycle,
      ImageAncestorCycle, ImageDirPastEnd, ImageEntriesPastEnd, ImageNamePastEnd,
      ImageDataEntryPastEnd>>


-----------------------------------------------------------------------------
(* OrderedDict: a sequence of [key, val] in insertion order.  A value is a *)
(* subtree [kind |-> "dir", items, rsrc |-> 0] or a leaf                   *)
(* [kind |-> "leaf", items |-> <<>>, rsrc |-> r], r the Resource.          *)

EmptyDict == <<>>
Subtree(items) == [kind |-> "dir", items |-> items, rsrc |-> 0]
Leaf(r) == [kind |-> "leaf", items |-> <<>>, rsrc |-> r]

Keys(d) == {d[i].key : i \in 1..Len(d)}
DictGet(d, key) == d[CHOOSE i \in 1..Len(d) : d[i].key = key].val
\* d[key] = val: an existing key keeps its place.
DictSet(d, key, val) ==
    IF key \in Keys(d)
    THEN [i \in 1..Len(d) |-> IF d[i].key = key THEN [key |-> key, val |-> val] ELSE d[i]]
    ELSE Append(d, [key |-> key, val |-> val])

-----------------------------------------------------------------------------
(* ResourceManager.__init__ and parse_rsrc: the state before parsing.      *)

NoOp == [name |-> "none", r |-> 0, v |-> <<>>]
NoCall == [name |-> "none", key |-> <<>>]
NoGen == [state |-> "none", id |-> <<>>, pos |-> 0]
NoAlign == [data |-> <<>>, blocksize |-> 1, integer |-> 0, out |-> <<>>,
            outint |-> 0, done |-> "none"]

\* The activation record of _read_resource(data, offset, rc_type, level).
Frame(offset, rc_type, level) ==
    [offset |-> offset, rc_type |-> rc_type, level |-> level, at |-> "enter",
     entries |-> <<>>, idx |-> 1, resource |-> EmptyDict]

Init ==
    /\ image \in 1..Len(Images)
    /\ pc = "parsing"
    /\ section_data = Images[image]
    /\ stack = <<Frame(0, <<95, 114, 111, 111, 116>>, 1)>>     \* "_root"
    /\ raw_resources = <<>>
    /\ res = <<>>
    /\ resources = EmptyDict
    /\ dir_size = Len(Images[image])
    /\ updates = 0
    /\ op = NoOp
    /\ call = NoCall
    /\ exc = "none"
    /\ gen = NoGen
    /\ yielded = <<>>
    /\ al = NoAlign

-----------------------------------------------------------------------------
(* ResourceManager._read_resource, _read_entries and _handle_data_entry,   *)
(* one step per directory entered, per entry handled and per return.       *)

Top == stack[Len(stack)]
SetTop(f) == [stack EXCEPT ![Len(stack)] = f]

\* The structures are read from rsrc_data, the bytes of the resource
\* directory: the section's buffer, which parsing does not change.
rsrc_data == section_data

\* Whether a read of size bytes at offset o ends within the buffer; the
\* codec raises EOFError otherwise.
InBuffer(buf, o, size) == o + size <= Len(buf)

NumberOfEntries(directory) ==
    directory.NumberOfNamedEntries + directory.NumberOfIdEntries

\* The offsets of the entries that follow the directory at offset.
EntryOffset(offset, i) == offset + DirectorySize + (i - 1) * EntrySize

RawRecord(offset, entry) ==
    [offset |-> offset, entry |-> entry, data_offset |-> offset,
     resource |-> 0, data |-> <<>>]

\* _read_entries: the entries, and one bookkeeping record for each.
read_entries(buf, offset, n) ==
    [i \in 1..n |-> ReadEntry(buf, EntryOffset(offset, i))]
EntryRecords(offset, entries) ==
    [i \in 1..Len(entries) |-> RawRecord(EntryOffset(offset, i), entries[i])]

UnchangedApi == UNCHANGED <<image, section_data, dir_size, updates, op, call,
                            gen, yielded, al>>

Fail(e) ==
    /\ pc' = "failed"
    /\ exc' = e
    /\ UNCHANGED <<stack, raw_resources, res, resources>>
    /\ UnchangedApi

\* Lines 118-126: decode the directory and its entries.
EnterDirectory ==
    /\ pc = "parsing" /\ Top.at = "enter"
    /\ InBuffer(rsrc_data, Top.offset, DirectorySize)
    /\ LET directory == ReadDirectory(rsrc_data, Top.offset)
           n == NumberOfEntries(directory)
       IN  /\ InBuffer(rsrc_data, Top.offset + DirectorySize, n * EntrySize)
           /\ LET entries == read_entries(rsrc_data, Top.offset, n)
              IN  /\ raw_resources' = Append(raw_resources, RawRecord(Top.offset, directory))
                                        \o EntryRecords(Top.offset, entries)
                  /\ stack' = SetTop([Top EXCEPT !.at = "loop", !.entries = entries])
    /\ UNCHANGED <<pc, exc, res, resources>>
    /\ UnchangedApi

\* The directory, or one of its entries, lies past the end of the image.
EnterDirectoryEOF ==
    /\ pc = "parsing" /\ Top.at = "enter"
    /\ \/ ~InBuffer(rsrc_data, Top.offset, DirectorySize)
       \/ /\ InBuffer(rsrc_data, Top.offset, DirectorySize)
          /\ ~InBuffer(rsrc_data, Top.offset + DirectorySize,
                       NumberOfEntries(ReadDirectory(rsrc_data, Top.offset)) * EntrySize)
    /\ Fail("EOFError")

CurrentEntry == Top.entries[Top.idx]
InLoop == pc = "parsing" /\ Top.at = "loop" /\ Top.idx <= Len(Top.entries)

\* Lines 129-137: whether the entry's name can be read, and the key.
NameReadable(buf, level, entry) ==
    \/ level = 1
    \/ entry.NameIsString = 0
    \/ /\ InBuffer(buf, entry.NameOffset, 2)
       /\ InBuffer(buf, entry.NameOffset + 2, 2 * U16(buf, entry.NameOffset))

rc_type_of(buf, level, entry) ==
    IF level = 1 THEN ResourceIDName(entry.Id)
    ELSE IF entry.NameIsString = 1
         THEN [i \in 1..U16(buf, entry.NameOffset) |->
                  U16(buf, entry.NameOffset + 2 * i)]
         ELSE Str(entry.Id)

NameEOF ==
    /\ InLoop
    /\ ~NameReadable(rsrc_data, Top.level, CurrentEntry)
    /\ Fail("EOFError")

\* Lines 139-145: the recursive call for a subdirectory.
Descend ==
    /\ InLoop
    /\ NameReadable(rsrc_data, Top.level, CurrentEntry)
    /\ CurrentEntry.DataIsDirectory = 1
    /\ Len(stack) < RecursionLimit
    /\ stack' = Append(stack, Frame(CurrentEntry.OffsetToDirectory,
                                    rc_type_of(rsrc_data, Top.level, CurrentEntry),
                                    Top.level + 1))
    /\ UNCHANGED <<pc, exc, raw_resources, res, resources>>
    /\ UnchangedApi

\* The interpreter's recursion limit is reached.
DescendTooDeep ==
    /\ InLoop
    /\ NameReadable(rsrc_data, Top.level, CurrentEntry)
    /\ CurrentEntry.DataIsDirectory = 1
    /\ Len(stack) >= RecursionLimit
    /\ Fail("RecursionError")

\* Resource.__init__ (lines 295-314).
NewResource(buf, entry, data_entry, rc_type) ==
    [name |-> <<entry.NameIsString, entry.NameOffset>>,
     entry_offset |-> entry.OffsetToDirectory,
     entry |-> data_entry,
     rc_type |-> rc_type,
     size_ |-> data_entry.Size,
     codepage |-> data_entry.CodePage,
     data_ |-> virtual_read(buf, data_entry.OffsetToData, data_entry.Size)]

\* Lines 146-149 and _handle_data_entry (lines 76-98).
HandleDataEntry ==
    /\ InLoop
    /\ NameReadable(rsrc_data, Top.level, CurrentEntry)
    /\ CurrentEntry.DataIsDirectory = 0
    /\ InBuffer(rsrc_data, CurrentEntry.OffsetToDirectory, DataEntrySize)
    /\ LET rc_type == rc_type_of(rsrc_data, Top.level, CurrentEntry)
           data_entry == ReadDataEntry(rsrc_data, CurrentEntry.OffsetToDirectory)
           r == Len(res) + 1
       IN  /\ res' = Append(res, NewResource(section_data, CurrentEntry, data_entry, rc_type))
           /\ raw_resources' = Append(raw_resources,
                 [offset |-> CurrentEntry.OffsetToDirectory,
                  entry |-> [type |-> "IMAGE_RESOURCE_DATA_ENTRY"],
                  data |-> virtual_read(section_data, data_entry.OffsetToData, data_entry.Size),
                  data_offset |-> data_entry.OffsetToData - VirtualAddress,
                  resource |-> r])
           /\ stack' = SetTop([Top EXCEPT !.idx = @ + 1,
                                          !.resource = DictSet(@, rc_type, Leaf(r))])
    /\ UNCHANGED <<pc, exc, resources>>
    /\ UnchangedApi

HandleDataEntryEOF ==
    /\ InLoop
    /\ NameReadable(rsrc_data, Top.level, CurrentEntry)
    /\ CurrentEntry.DataIsDirectory = 0
    /\ ~InBuffer(rsrc_data, CurrentEntry.OffsetToDirectory, DataEntrySize)
    /\ Fail("EOFError")

\* Line 151, and the assignment of the result at line 140 or line 40.
Return ==
    /\ pc = "parsing" /\ Top.at = "loop" /\ Top.idx > Len(Top.entries)
    /\ IF Len(stack) = 1
       THEN /\ resources' = Top.resource
            /\ pc' = "ready"
            /\ stack' = <<>>
       ELSE LET caller == stack[Len(stack) - 1]
            IN  /\ stack' = [i \in 1..(Len(stack) - 1) |->
                               IF i = Len(stack) - 1
                               THEN [caller EXCEPT
                                       !.idx = @ + 1,
                                       !.resource = DictSet(@, Top.rc_type, Subtree(Top.resource))]
                               ELSE stack[i]]
                /\ UNCHANGED <<pc, resources>>
    /\ UNCHANGED <<exc, raw_resources, res>>
    /\ UnchangedApi

Parse ==
    \/ EnterDirectory
    \/ EnterDirectoryEOF
    \/ NameEOF
    \/ Descend
    \/ DescendTooDeep
    \/ HandleDataEntry
    \/ HandleDataEntryEOF
    \/ Return

-----------------------------------------------------------------------------
(* Resource: the size and offset properties and the data setter.           *)

\* Resource.size (lines 325-334): the length of the payload.
size(resource) == Len(resource.data_)

\* Resource.offset (lines 347-350).
offset(resource) == resource.entry.OffsetToData

\* A size setter that forgets the backing data entry.
set_size_private_only(resource, value) ==
    [resource EXCEPT !.size_ = value]

\* Resource.size = value (lines 336-345).
set_size(resource, value) ==
    [resource EXCEPT !.size_ = value, !.entry.Size = value]

\* Resource.offset = value (lines 352-360).
set_offset(resource, value) ==
    [resource EXCEPT !.entry.OffsetToData = value]

\* Lines 380-384 of the data setter.
assign_data(resource, value) ==
    LET assigned == [resource EXCEPT !.data_ = value]
    IN  IF Len(value) # resource.entry.Size
        THEN set_size(assigned, Len(value))
        ELSE assigned

\* sorted(raw_resources, key=data_offset): the indices of the records in
\* ascending data_offset, records of equal data_offset in list order (the
\* sort is stable).  InsertSorted puts index j, larger than those of order,
\* after the indices whose data_offset is not larger.
RECURSIVE InsertSorted(_, _, _)
InsertSorted(order, raw, j) ==
    IF order = <<>> THEN <<j>>
    ELSE IF raw[Head(order)].data_offset <= raw[j].data_offset
         THEN <<Head(order)>> \o InsertSorted(Tail(order), raw, j)
         ELSE <<j>> \o order
RECURSIVE SortedPrefix(_, _)
SortedPrefix(raw, n) ==
    IF n = 0 THEN <<>> ELSE InsertSorted(SortedPrefix(raw, n - 1), raw, n)
SortedByDataOffset(raw) == SortedPrefix(raw, Len(raw))

\* A next offset that forgets the size of the previous payload.
new_data_offset_without_size(prev_offset, prev_size) == prev_offset

\* Line 402.
new_data_offset(prev_offset, prev_size) == prev_offset + prev_size

\* entry.dumps() of a bookkeeping record (line 422).
Dumps(rec, rs) ==
    CASE rec.entry.type = "IMAGE_RESOURCE_DIRECTORY" -> DumpDirectory(rec.entry)
      [] rec.entry.type = "IMAGE_RESOURCE_DIRECTORY_ENTRY" -> DumpEntry(rec.entry)
      [] OTHER -> DumpDataEntry(rs[rec.resource].entry)

\* Lines 409-422 for the data-entry record j, placed at data_offset: the
\* payload is written there and the data entry at its own offset; st is
\* [raw, res, buf, prev_offset, prev_size].
WriteResource(st, rec, r, data_offset) ==
    [st EXCEPT
       !.buf = WriteAt(WriteAt(@, data_offset, st.res[r].data_),
                       rec.offset, DumpDataEntry(st.res[r].entry)),
       !.prev_offset = data_offset,
       !.prev_size = size(st.res[r])]

\* Lines 402-407: the record moves to new when new is neither 0 nor its
\* data_offset, and its Resource's offset follows.
PlaceResource(st, j, rec, new) ==
    IF new # 0 /\ new # rec.data_offset
    THEN WriteResource([st EXCEPT !.raw[j].data_offset = new,
                                  !.res[rec.resource] =
                                      set_offset(@, VirtualAddress + new)],
                       rec, rec.resource, new)
    ELSE WriteResource(st, rec, rec.resource, rec.data_offset)

\* One iteration of the loop of lines 391-422, for the record rec of index j.
RebuildRecord(st, j, rec) ==
    IF rec.entry.type = "IMAGE_RESOURCE_DATA_ENTRY"
    THEN PlaceResource(st, j, rec, new_data_offset(st.prev_offset, st.prev_size))
    ELSE [st EXCEPT !.buf = WriteAt(@, rec.offset, Dumps(rec, st.res))]

RECURSIVE RebuildLoop(_, _, _)
RebuildLoop(st, order, k) ==
    IF k > Len(order) THEN st
    ELSE RebuildLoop(RebuildRecord(st, order[k], st.raw[order[k]]), order, k + 1)

\* Lines 386-425: the rebuilt bookkeeping, Resources and section buffer.
Rebuild(raw, rs) ==
    RebuildLoop([raw |-> raw, res |-> rs, buf |-> <<>>, prev_offset |-> 0,
                 prev_size |-> 0],
                SortedByDataOffset(raw), 1)

\* The payloads a caller assigns.
Fill(n) == [i \in 1..n |-> 16 + i]
NewPayloads == {Fill(0), Fill(2), Fill(MaxPayload)}

\* resource.data = value (lines 367-431), resource the Resource r.
SetData(r, value) ==
    /\ pc = "ready"
    /\ \E st \in {Rebuild(raw_resources, [res EXCEPT ![r] = assign_data(@, value)])} :
           /\ raw_resources' = st.raw
           /\ res' = st.res
           /\ section_data' = st.buf
           /\ dir_size' = Len(st.buf)
    /\ op' = [name |-> "set_data", r |-> r, v |-> value]
    /\ exc' = "none"
    /\ UNCHANGED <<pc, image, stack, resources, updates, call, gen, yielded, al>>

-----------------------------------------------------------------------------
(* ResourceManager: enumeration, lookup and update_section.                *)

\* parse_resources (lines 186-200): the leaves of a tree, depth first, in
\* insertion order.
RECURSIVE parse_resources(_)
parse_resources(d) ==
    IF d = <<>> THEN <<>>
    ELSE (IF Head(d).val.kind = "leaf" THEN <<Head(d).val.rsrc>>
          ELSE parse_resources(Head(d).val.items))
         \o parse_resources(Tail(d))

\* One iteration of the loop of lines 250-273 for the Resource r, the idx-th
\* that parse_resources yields; st is [res, buf].
UpdateResource(st, r, idx, old_data, update_offset) ==
    LET resource == st.res[r]
        header_size == offset(resource) - VirtualAddress
        buf0 == IF idx = 0 THEN Slice(old_data, 0, header_size) ELSE st.buf
        prev_offset == offset(resource)
        prev_size == size(resource)
    IN  [buf |-> buf0 \o resource.data_,
         res |-> IF update_offset >= offset(resource) THEN st.res
                 ELSE [st.res EXCEPT ![r] = set_offset(@, prev_offset + prev_size + 2)]]

RECURSIVE UpdateLoop(_, _, _, _, _)
UpdateLoop(st, leaves, k, old_data, update_offset) ==
    IF k > Len(leaves) THEN st
    ELSE UpdateLoop(UpdateResource(st, leaves[k], k - 1, old_data, update_offset),
                    leaves, k + 1, old_data, update_offset)

\* update_section(update_offset) (lines 240-279).  With no Resource at all
\* line 276 reads header_size unbound; the images here hold one at least.
UpdateSection(update_offset) ==
    /\ pc = "ready"
    /\ updates < MaxUpdates
    /\ parse_resources(resources) # <<>>
    /\ \E st \in {UpdateLoop([res |-> res, buf |-> <<>>], parse_resources(resources), 1,
                             section_data, update_offset)} :
           /\ res' = st.res
           /\ section_data' = st.buf
    /\ updates' = updates + 1
    /\ op' = [name |-> "update_section", r |-> update_offset, v |-> <<>>]
    /\ exc' = "none"
    /\ UNCHANGED <<pc, image, stack, raw_resources, resources, dir_size, call, gen,
                   yielded, al>>

\* The update_offset arguments tried: the offset of a Resource, or 0.
UpdateOffsets == {0} \cup {offset(res[r]) : r \in 1..Len(res)}

Edit ==
    \/ \E r \in 1..Len(res) : \E value \in NewPayloads \cup {res[r].data_} :
          SetData(r, value)
    \/ \E update_offset \in UpdateOffsets : UpdateSection(update_offset)

\* The keys looked up: "RT_ICON", "RT_STRING", "A" (a key of the second
\* level of ImageNamed) and "nonexistent".
LookupKeys ==
    {ResourceIDName(3), ResourceIDName(6), <<65>>,
     <<110, 111, 110, 101, 120, 105, 115, 116, 101, 110, 116>>}

UnchangedByLookup ==
    UNCHANGED <<pc, image, stack, raw_resources, res, resources, section_data,
                dir_size, updates, op, al>>

\* get_resource(name) (lines 153-166).
GetResource(name) ==
    /\ pc = "ready"
    /\ call' = [name |-> "get_resource", key |-> name]
    /\ exc' = IF name \in Keys(resources) THEN "none" ELSE "ResourceException"
    /\ UNCHANGED <<gen, yielded>>
    /\ UnchangedByLookup

\* get_resource_type(rsrc_id) (lines 168-184) is a generator function: the
\* call runs none of its body and returns a generator.
GetResourceType(rsrc_id) ==
    /\ pc = "ready"
    /\ call' = [name |-> "get_resource_type", key |-> rsrc_id]
    /\ gen' = [state |-> "created", id |-> rsrc_id, pos |-> 0]
    /\ yielded' = <<>>
    /\ exc' = "none"
    /\ UnchangedByLookup

Resumable == pc = "ready" /\ gen.state \in {"created", "running"}

\* next(generator), lines 180-181: the id is not a key of the tree.
GenNotFound ==
    /\ Resumable
    /\ gen.id \notin Keys(resources)
    /\ gen' = [gen EXCEPT !.state = "raised"]
    /\ exc' = "ResourceException"
    /\ UNCHANGED <<call, yielded>>
    /\ UnchangedByLookup

\* next(generator), line 183 and line 196: the value under the id is a
\* Resource, which has no items().
GenNotADict ==
    /\ Resumable
    /\ gen.id \in Keys(resources)
    /\ DictGet(resources, gen.id).kind = "leaf"
    /\ gen' = [gen EXCEPT !.state = "raised"]
    /\ exc' = "AttributeError"
    /\ UNCHANGED <<call, yielded>>
    /\ UnchangedByLookup

\* The Resources the generator goes through (lines 183-184).
GenLeaves == parse_resources(DictGet(resources, gen.id).items)

\* next(generator): the next Resource is yielded.
GenYield ==
    /\ Resumable
    /\ gen.id \in Keys(resources)
    /\ DictGet(resources, gen.id).kind = "dir"
    /\ gen.pos < Len(GenLeaves)
    /\ gen' = [gen EXCEPT !.state = "running", !.pos = @ + 1]
    /\ yielded' = Append(yielded, GenLeaves[gen.pos + 1])
    /\ exc' = "none"
    /\ UNCHANGED call
    /\ UnchangedByLookup

\* next(generator): the generator is exhausted.
GenStop ==
    /\ Resumable
    /\ gen.id \in Keys(resources)
    /\ DictGet(resources, gen.id).kind = "dir"
    /\ gen.pos = Len(GenLeaves)
    /\ gen' = [gen EXCEPT !.state = "finished"]
    /\ exc' = "none"
    /\ UNCHANGED <<call, yielded>>
    /\ UnchangedByLookup

Lookup ==
    \/ \E name \in LookupKeys : GetResource(name)
    \/ \E rsrc_id \in LookupKeys : GetResourceType(rsrc_id)
    \/ GenNotFound
    \/ GenNotADict
    \/ GenYield
    \/ GenStop

-----------------------------------------------------------------------------
(* utils.py: align_data, align_int and pad.                                *)

\* align_data(data, blocksize) (lines 1-17).
align_data(data, blocksize) ==
    IF Len(data) % blocksize = 0 THEN data
    ELSE data \o Zeros(blocksize - (Len(data) % blocksize))

\* An align_int that adds a whole block to an aligned integer.
align_int_always_adds(integer, blocksize) ==
    integer + (blocksize - (integer % blocksize))

\* align_int(integer, blocksize) (lines 20-32).
align_int(integer, blocksize) ==
    IF integer % blocksize = 0 THEN integer
    ELSE integer + (blocksize - (integer % blocksize))

\* pad(size) (lines 35-44).
pad(n) == Zeros(n)

\* The buffers aligned: every sequence of the bytes 0 and 7 up to MaxAlignLen.
RECURSIVE BufsOfLen(_)
BufsOfLen(n) ==
    IF n = 0 THEN {<<>>}
    ELSE {Append(b, x) : b \in BufsOfLen(n - 1), x \in {0, 7}}
AlignBufs == UNION {BufsOfLen(n) : n \in 0..MaxAlignLen}

InitAlign ==
    /\ pc = "align"
    /\ al \in [data : AlignBufs, blocksize : 1..MaxBlock, integer : 0..MaxAlignInt,
               out : {<<>>}, outint : {0}, done : {"none"}]
    /\ image = 1
    /\ section_data = <<>>
    /\ stack = <<>>
    /\ raw_resources = <<>>
    /\ res = <<>>
    /\ resources = EmptyDict
    /\ dir_size = 0
    /\ updates = 0
    /\ op = NoOp
    /\ call = NoCall
    /\ exc = "none"
    /\ gen = NoGen
    /\ yielded = <<>>

UnchangedByAlign ==
    UNCHANGED <<pc, image, stack, raw_resources, res, resources, section_data,
                dir_size, updates, op, call, exc, gen, yielded>>

AlignData ==
    /\ pc = "align" /\ al.done = "none"
    /\ al' = [al EXCEPT !.out = align_data(al.data, al.blocksize), !.done = "align_data"]
    /\ UnchangedByAlign

AlignInt ==
    /\ pc = "align" /\ al.done = "none"
    /\ al' = [al EXCEPT !.outint = align_int(al.integer, al.blocksize), !.done = "align_int"]
    /\ UnchangedByAlign

Pad ==
    /\ pc = "align" /\ al.done = "none"
    /\ al' = [al EXCEPT !.out = pad(al.integer), !.done = "pad"]
    /\ UnchangedByAlign

-----------------------------------------------------------------------------
(* The specifications.                                                     *)

\* Parsing, then assignments to Resource.data and calls of update_section.
Next == Parse \/ Edit
Spec == Init /\ [][Next]_vars

\* Parsing, then lookups.
NextLookup == Parse \/ Lookup
SpecLookup == Init /\ [][NextLookup]_vars

\* The alignment utilities on their own.
NextAlign == AlignData \/ AlignInt \/ Pad
SpecAlign == InitAlign /\ [][NextAlign]_vars


-----------------------------------------------------------------------------
(* What the claims speak of.                                               *)

Ready == pc = "ready"
Resources == 1..Len(res)

\* The indices of the data-entry bookkeeping records, and the record of a
\* Resource.
DataRecords == {i \in 1..Len(raw_resources) : raw_resources[i].resource # 0}
RecordOf(r) == CHOOSE i \in DataRecords : raw_resources[i].resource = r
DataOffset(r) == raw_resources[RecordOf(r)].data_offset

\* The data-entry records in the order sorted(raw_resources, key=data_offset)
\* lists them.
SortedDataRecords ==
    SelectSeq(SortedByDataOffset(raw_resources), LAMBDA i : i \in DataRecords)

\* The payload of record i ends at or before the start of that of record j.
EndsBefore(i, j) ==
    raw_resources[j].data_offset >=
        raw_resources[i].data_offset + size(res[raw_resources[i].resource])


\* Record i comes before record j in sorted(raw_resources, key=data_offset).
SortsBefore(i, j) ==
    \/ raw_resources[i].data_offset < raw_resources[j].data_offset
    \/ raw_resources[i].data_offset = raw_resources[j].data_offset /\ i < j

\* The values assigned to the data of Resource r.
Assignable(r) == NewPayloads \cup {res[r].data_}

-----------------------------------------------------------------------------
\* C1 (round-trip identity): on the freshly parsed state, assigning to a
\* Resource's data the bytes it already holds leaves section.data as it was.
C1_RoundTripIdentity ==
    [][\A r \in Resources :
          (op = NoOp /\ SetData(r, res[r].data_)) => section_data' = section_data]_vars

-----------------------------------------------------------------------------
-----------------------------------------------------------------------------
\* C3 (size derivation): right after resource.data = v the Resource holds
\* v, its size and the Size of its data entry are len(v); and every
\* Resource's size, and the Size of its data entry, is the length of its
\* payload.
C3_SizeDerivation ==
    Ready =>
      /\ \A r \in Resources :
            size(res[r]) = Len(res[r].data_) /\ res[r].entry.Size = Len(res[r].data_)
      /\ op.name = "set_data" =>
            /\ res[op.r].data_ = op.v
            /\ size(res[op.r]) = Len(op.v)
            /\ res[op.r].entry.Size = Len(op.v)

\* A payload of another length than the parsed one has been assigned.
C3_Witness ==
    /\ Ready /\ op.name = "set_data"
    /\ Len(op.v) = MaxPayload
    /\ res[op.r].entry.Size = MaxPayload
    /\ U31(Images[image], raw_resources[RecordOf(op.r)].offset + 4) # MaxPayload

-----------------------------------------------------------------------------
\* The leaf data entries of the well-formed images, by depth-1 key, in the
\* order of the directory entries on disk: the offsets of the data entries.
LeafDataEntries ==
    <<  <<[key |-> ResourceIDName(3), leaves |-> <<56, 72>>]>>,
        <<[key |-> ResourceIDName(3), leaves |-> <<56, 72>>]>>,
        <<[key |-> ResourceIDName(3), leaves |-> <<112, 128>>],
          [key |-> ResourceIDName(6), leaves |-> <<144>>]>>,
        <<[key |-> ResourceIDName(3), leaves |-> <<32>>],
          [key |-> ResourceIDName(6), leaves |-> <<72>>]>>  >>

LeavesUnder(key) ==
    LET e == LeafDataEntries[image]
    IN  e[CHOOSE i \in 1..Len(e) : e[i].key = key].leaves

RECURSIVE CountLeaves(_)
CountLeaves(e) == IF e = <<>> THEN 0 ELSE Len(Head(e).leaves) + CountLeaves(Tail(e))

\* The data entries of the Resources yielded so far.
YieldedEntries == [k \in 1..Len(yielded) |-> res[yielded[k]].entry_offset]

\* C4 (lookup correctness): the depth-1 keys are those of the image; the
\* generator of get_resource_type(key), key a depth-1 key, yields the
\* Resources of the leaf data entries under key in their order on disk,
\* each once, and ends without raising; the leaves of all keys are the N
\* leaf data entries of the image.
C4_LookupCorrectness ==
    Ready =>
      /\ Keys(resources) = {LeafDataEntries[image][i].key :
                               i \in 1..Len(LeafDataEntries[image])}
      /\ CountLeaves(LeafDataEntries[image]) = Len(res)
      /\ gen.state # "none" /\ gen.id \in Keys(resources) =>
            /\ gen.state # "raised"
            /\ Len(yielded) <= Len(LeavesUnder(gen.id))
            /\ YieldedEntries = SubSeq(LeavesUnder(gen.id), 1, Len(yielded))
            /\ gen.state = "finished" => Len(yielded) = Len(LeavesUnder(gen.id))

-----------------------------------------------------------------------------
\* What a lookup must leave alone.
Unmutated == UNCHANGED <<resources, raw_resources, res, section_data, dir_size>>

\* C5 (not found): the call get_resource(name), and the call
\* get_resource_type(name), with a name that is no key of the tree root
\* raise ResourceException and change nothing.
C5_NotFound ==
    [][\A name \in LookupKeys \ Keys(resources) :
          (GetResource(name) \/ GetResourceType(name)) =>
              (exc' = "ResourceException" /\ Unmutated)]_vars

-----------------------------------------------------------------------------
\* The payloads of a and b are contiguous, a first.
Contiguous(a, b) ==
    /\ a # b
    /\ DataOffset(b) = DataOffset(a) + Len(res[a].data_)
    /\ SortsBefore(RecordOf(a), RecordOf(b))

\* The bytes of the section buffer where the bookkeeping puts the payload
\* of Resource r.
PayloadInSection(r) ==
    Slice(section_data, DataOffset(r), DataOffset(r) + Len(res[r].data_))

\* C6 (shift on edit): with the payloads of a and b contiguous, a first,
\* a.data = v moves b.offset by len(v) - len(a.data), leaves a.offset and
\* b.data as they were, and the rebuilt buffer holds the payload of b at
\* its new data_offset and v at the data_offset of a.
C6_ShiftOnEdit ==
    [][\A a, b \in Resources : \A v \in NewPayloads :
          (Contiguous(a, b) /\ SetData(a, v)) =>
              /\ offset(res'[b]) = offset(res[b]) + Len(v) - Len(res[a].data_)
              /\ offset(res'[a]) = offset(res[a])
              /\ res'[b].data_ = res[b].data_
              /\ PayloadInSection(b)' = res[b].data_
              /\ PayloadInSection(a)' = v]_vars

-----------------------------------------------------------------------------
\* C7 (parsing is total): _read_resource never enters a directory that it
\* is already reading (so that its recursion is bounded by the directories
\* of the image), and parsing fails only with the parse error of a read
\* past the end of the image.
C7_ParsingTotal ==
    /\ \A i, j \in 1..Len(stack) : i # j => stack[i].offset # stack[j].offset
    /\ pc = "failed" => exc = "EOFError"

-----------------------------------------------------------------------------
\* C8 (alignment): align_data returns the data followed by zero bytes only,
\* of the least length that is a multiple of the block size, which is
\* align_int of the length; align_int returns the least multiple of the
\* block size that is not less than the integer; both return an aligned
\* input as it is, and both are idempotent.
C8_Alignment ==
    /\ al.done = "align_data" =>
          /\ SubSeq(al.out, 1, Len(al.data)) = al.data
          /\ \A i \in (Len(al.data) + 1)..Len(al.out) : al.out[i] = 0
          /\ Len(al.out) % al.blocksize = 0
          /\ Len(al.out) >= Len(al.data)
          /\ Len(al.out) < Len(al.data) + al.blocksize
          /\ Len(al.out) = align_int(Len(al.data), al.blocksize)
          /\ Len(al.data) % al.blocksize = 0 => al.out = al.data
          /\ align_data(al.out, al.blocksize) = al.out
    /\ al.done = "align_int" =>
          /\ al.outint % al.blocksize = 0
          /\ al.outint >= al.integer
          /\ al.outint < al.integer + al.blocksize
          /\ al.integer % al.blocksize = 0 => al.outint = al.integer
          /\ align_int(al.outint, al.blocksize) = al.outint

\* A buffer that was not aligned has been padded with more than one byte.
C8_Witness ==
    /\ al.done = "align_data"
    /\ Len(al.data) % al.blocksize # 0
    /\ Len(al.out) > Len(al.data) + 1
    /\ al.data # Zeros(Len(al.data))

-----------------------------------------------------------------------------
StructSize(type) ==
    CASE type = "IMAGE_RESOURCE_DIRECTORY" -> DirectorySize
      [] type = "IMAGE_RESOURCE_DIRECTORY_ENTRY" -> EntrySize
      [] OTHER -> DataEntrySize

\* The byte at offset o belongs to a structure the rebuild serializes.
InStructure(o) ==
    \E i \in 1..Len(raw_resources) :
        /\ raw_resources[i].offset <= o
        /\ o < raw_resources[i].offset + StructSize(raw_resources[i].entry.type)

\* first_resource.offset - section.virtual_address, first_resource the
\* first Resource of the tree.
HeaderSize == offset(res[parse_resources(resources)[1]]) - VirtualAddress

\* C9 (header region): after resource.data = v, every byte of the header
\* region of the rebuilt buffer that lies in no serialized structure is the
\* byte the buffer held there before.
C9_HeaderPreserved ==
    [][\A r \in Resources : \A v \in Assignable(r) :
          SetData(r, v) =>
              \A o \in 0..(HeaderSize' - 1) :
                  (~InStructure(o) /\ o < Len(section_data)) =>
                      (o < Len(section_data') /\ section_data'[o + 1] = section_data[o + 1])]_vars

-----------------------------------------------------------------------------
RECURSIVE Payloads(_)
Payloads(leaves) ==
    IF leaves = <<>> THEN <<>> ELSE res[Head(leaves)].data_ \o Payloads(Tail(leaves))

\* C10 (update_section): the offset of a Resource at or below
\* update_offset stays; the offset of a Resource above it becomes the
\* offset of the Resource before it in the walk (as the walk found it, or as
\* the walk left it) plus that Resource's size plus 2; and section.data
\* becomes the header region of the old buffer followed by the payloads in
\* the order of the walk.
C10_UpdateSection ==
    [][\A u \in UpdateOffsets :
          UpdateSection(u) =>
              LET leaves == parse_resources(resources)
              IN  /\ \A k \in 1..Len(leaves) :
                        offset(res[leaves[k]]) <= u =>
                            offset(res'[leaves[k]]) = offset(res[leaves[k]])
                  /\ \A k \in 2..Len(leaves) :
                        offset(res[leaves[k]]) > u =>
                            \/ offset(res'[leaves[k]]) =
                                 offset(res[leaves[k - 1]]) + size(res[leaves[k - 1]]) + 2
                            \/ offset(res'[leaves[k]]) =
                                 offset(res'[leaves[k - 1]]) + size(res[leaves[k - 1]]) + 2
                  /\ section_data' =
                        Slice(section_data, 0, offset(res[leaves[1]]) - VirtualAddress)
                          \o Payloads(leaves)]_vars

=============================================================================
